---- MODULE Spec2Model ----
(***************************************************************************)
(* The API request serializer of index.tsx: the module-level queue         *)
(* apiQueue, the flag isApiBusy, processApiQueue and enqueueApiRequest,    *)
(* together with the JavaScript event loop they run on (one logical        *)
(* thread, promises that settle, setTimeout timers, a millisecond clock).  *)
(*                                                                         *)
(* A work item is identified by its enqueue number (1 is the first item    *)
(* ever enqueued).  What an item does when invoked is an input: it         *)
(* resolves or rejects dur milliseconds after it was invoked, or throws    *)
(* synchronously on invocation, or returns a promise that never settles,   *)
(* and it starts 0 or 1 upstream call while it is in flight.               *)
(*                                                                         *)
(* Time is in milliseconds.  A timer callback runs when the clock reaches  *)
(* the timer's deadline and a promise settles when the clock reaches the   *)
(* item's settle time: the clock never steps over a pending event.         *)
(*                                                                         *)
(* The closures the application passes to enqueueApiRequest are modelled   *)
(* one execution at a time (variable item, specification ItemSpec): the    *)
(* awaits of the closure, its try / catch / finally, the isMounted guards  *)
(* and the component's unmounting.  getApiErrorMessage is modelled as an   *)
(* operator on an abstract error value (variable report, specification     *)
(* ReportSpec).                                                            *)
(*                                                                         *)
(* Two components are modelled on top of the serializer (variable          *)
(* component): CreativeCorner with its idea list, its buttons and its      *)
(* three closures (CornerSpec), and SpeechGenerationModule with its        *)
(* recording button and its two loading flags (SpeechSpec).  CooldownSpec  *)
(* is the serializer with a clock that also stops in the middle of a       *)
(* cooldown.                                                               *)
(***************************************************************************)
EXTENDS Integers, Sequences, FiniteSets

\* ---------------------------------------------------------------- bounds
\* number of enqueueApiRequest calls in a behaviour
MaxItems == 3

\* number of marker texts in one error value
MaxMarkers == 2

\* number of getUserMedia promises, and of recorder stop events, pending at
\* one time
MaxPending == 2

\* ------------------------------------------------------ program constants
\* const REQUEST_DELAY = 65000;
REQUEST_DELAY_Minute == 60 * 1000
REQUEST_DELAY == 65000

\* ----------------------------------------------------------------- inputs
Ids == 1..MaxItems
\* how long an item's promise takes to settle, in ms
Durations == {10, 70000}
\* the positions of the ideas one idea generation returns
IdeaIndexes == 1..2
\* a task: () => Promise<void>
Tasks ==
    {[beh |-> "resolve", dur |-> d, calls |-> 1] : d \in Durations}
    \cup {[beh |-> "reject", dur |-> 10, calls |-> 1],
          [beh |-> "throw", dur |-> 0, calls |-> 0],
          [beh |-> "hang", dur |-> 0, calls |-> 0]}

VARIABLES
    isApiBusy,      \* let isApiBusy
    apiQueue,       \* const apiQueue: sequence of item ids, head first
    tasks,          \* the closures enqueued so far, by item id
    inflight,       \* items invoked by processApiQueue whose promise is pending
    timers,         \* pending setTimeout callbacks: [id, deadline]
    now,            \* the clock, ms
    started,        \* item ids in the order they were invoked
    invoked,        \* how many times each item was invoked
    enqTime,        \* when each item was enqueued (-1: not yet)
    startTime,      \* when each item was invoked (-1: not yet)
    settleTime,     \* when each item settled or threw (-1: not yet)
    clearTime,      \* when the timer armed after each item cleared isApiBusy
    upstreamCalls,  \* upstream calls started: [id, time], in order
    errorLog,       \* items whose error processApiQueue passed to console.error
    unhandled,      \* rejections of the promise returned by processApiQueue
    item,           \* one execution of a closure of the application
    report,         \* one call of getApiErrorMessage: error and message
    component       \* a mounted component and the closures it enqueued

vars == <<isApiBusy, apiQueue, tasks, inflight, timers, now, started, invoked,
          enqTime, startTime, settleTime, clearTime, upstreamCalls, errorLog,
          unhandled, item, report, component>>

\* the serializer's variables
queueVars == <<isApiBusy, apiQueue, tasks, inflight, timers, now, started,
               invoked, enqTime, startTime, settleTime, clearTime,
               upstreamCalls, errorLog, unhandled>>

hist == <<started, invoked, startTime, settleTime, errorLog, unhandled>>

\* ---------------------------------------------------------------- helpers
\* if (isApiBusy || apiQueue.length === 0) return;
ShouldReturnNoBusyCheck(b, q) == Len(q) = 0
ShouldReturnSingleton(b, q) == b \/ Len(q) <= 1
ShouldReturn(b, q) == b \/ Len(q) = 0

\* apiQueue.shift(): the head, and the queue without it
ShiftPop(q) == [task |-> q[Len(q)], rest |-> SubSeq(q, 1, Len(q) - 1)]
ShiftPeek(q) == [task |-> Head(q), rest |-> q]
Shift(q) == [task |-> Head(q), rest |-> Tail(q)]

\* apiQueue.push(task)
PushDropWhenBusy(q, id) == IF isApiBusy THEN q ELSE Append(q, id)
PushFront(q, id) == <<id>> \o q
Push(q, id) == Append(q, id)

\* try { await requestTask(); } catch (error) { ... }: what the catch covers
CaughtRejectOnly(beh) == beh = "reject"
Caught(beh) == beh \in {"throw", "reject"}

\* console.error("An error occurred while processing ...", error)
ConsoleErrorSilent(log, id) == log
ConsoleError(log, id) == Append(log, id)

\* setTimeout(() => {...}, REQUEST_DELAY) called at time now after item id
SetTimeoutBackoff(tm, id) ==
    tm \cup {[id |-> id,
              deadline |-> now + (IF Len(errorLog') > 0 THEN 2 * REQUEST_DELAY
                                                       ELSE REQUEST_DELAY)]}
SetTimeoutSkipWhenDrained(tm, id) ==
    tm \cup {[id |-> id,
              deadline |-> now + (IF apiQueue = <<>> THEN 0
                                                     ELSE REQUEST_DELAY)]}
SetTimeoutShort(tm, id) ==
    tm \cup {[id |-> id, deadline |-> now + (REQUEST_DELAY \div 2)]}
SetTimeout(tm, id) == tm \cup {[id |-> id, deadline |-> now + REQUEST_DELAY]}

CallsMade(id) ==
    Cardinality({k \in 1..Len(upstreamCalls) : upstreamCalls[k].id = id})

\* item id's promise never settles
Hangs(id) == tasks[id].beh = "hang"

\* the time of the next pending event (a settle or a timer), or -1
EventTimes ==
    {startTime[i] + tasks[i].dur : i \in {j \in inflight : ~Hangs(j)}}
    \cup {t.deadline : t \in timers}
NextEvent ==
    IF EventTimes = {} THEN -1
    ELSE CHOOSE t \in EventTimes : \A u \in EventTimes : t <= u

\* ------------------------------------------------------- processApiQueue
\* The rest of processApiQueue after `await requestTask()` returned or
\* threw for item id: the catch block, then setTimeout.
AfterTask(id, ts, tm, st) ==
    LET failed == ts[id].beh \in {"throw", "reject"} IN
    /\ settleTime' = [st EXCEPT ![id] = now]
    /\ IF failed /\ ~Caught(ts[id].beh)
       THEN \* the error leaves the async function: its promise rejects
            /\ unhandled' = unhandled + 1
            /\ errorLog' = errorLog
            /\ timers' = tm
       ELSE /\ unhandled' = unhandled
            /\ errorLog' = IF failed THEN ConsoleError(errorLog, id)
                                     ELSE errorLog
            /\ timers' = SetTimeout(tm, id)

\* processApiQueue() up to its first suspension, with busy flag b, queue q,
\* task table ts and pending timers tm as its caller left them.
ProcessApiQueue(b, q, ts, tm) ==
    IF ShouldReturn(b, q)
    THEN /\ isApiBusy' = b
         /\ apiQueue' = q
         /\ timers' = tm
         /\ UNCHANGED <<inflight, hist>>
    ELSE LET sh == Shift(q)
             id == sh.task
         IN /\ isApiBusy' = TRUE
            /\ apiQueue' = sh.rest
            /\ started' = Append(started, id)
            /\ invoked' = [invoked EXCEPT ![id] = @ + 1]
            /\ startTime' = [startTime EXCEPT ![id] = now]
            /\ IF ts[id].beh = "throw"
               THEN /\ inflight' = inflight
                    /\ AfterTask(id, ts, tm, settleTime)
               ELSE /\ inflight' = inflight \cup {id}
                    /\ timers' = tm
                    /\ UNCHANGED <<settleTime, errorLog, unhandled>>

\* ---------------------------------------------------------------- actions
QueueInit ==
    /\ isApiBusy = FALSE
    /\ apiQueue = <<>>
    /\ tasks = <<>>
    /\ inflight = {}
    /\ timers = {}
    /\ now = 0
    /\ started = <<>>
    /\ invoked = [i \in Ids |-> 0]
    /\ enqTime = [i \in Ids |-> -1]
    /\ startTime = [i \in Ids |-> -1]
    /\ settleTime = [i \in Ids |-> -1]
    /\ clearTime = [i \in Ids |-> -1]
    /\ upstreamCalls = <<>>
    /\ errorLog = <<>>
    /\ unhandled = 0

\* no closure is being executed, getApiErrorMessage has not been called
NoItem == [pc |-> "none"]
NoReport == [pc |-> "none"]
NoComponent == [pc |-> "none"]

Init ==
    /\ QueueInit
    /\ item = NoItem
    /\ report = NoReport
    /\ component = NoComponent

\* enqueueApiRequest(task), as it acts on the serializer
EnqueueApiRequestCall(task) ==
    /\ Len(tasks) < MaxItems
    /\ LET id == Len(tasks) + 1
           ts == Append(tasks, task)
       IN /\ tasks' = ts
          /\ enqTime' = [enqTime EXCEPT ![id] = now]
          /\ ProcessApiQueue(isApiBusy, Push(apiQueue, id), ts, timers)
    /\ UNCHANGED <<now, clearTime, upstreamCalls>>

\* enqueueApiRequest(task)
EnqueueApiRequest(task) ==
    /\ EnqueueApiRequestCall(task)
    /\ UNCHANGED <<item, report, component>>

\* the in-flight item id starts its upstream call (ai.models.generateContent
\* or ai.models.generateImages inside the work item)
UpstreamCall(id) ==
    /\ id \in inflight
    /\ CallsMade(id) < tasks[id].calls
    /\ upstreamCalls' = Append(upstreamCalls, [id |-> id, time |-> now])
    /\ UNCHANGED <<isApiBusy, apiQueue, tasks, inflight, timers, now, hist,
                   enqTime, clearTime, item, report, component>>

\* the promise of in-flight item id settles and processApiQueue resumes, as
\* it acts on the serializer
SettleTask(id) ==
    /\ id \in inflight
    /\ ~Hangs(id)
    /\ now = startTime[id] + tasks[id].dur
    /\ CallsMade(id) = tasks[id].calls
    /\ inflight' = inflight \ {id}
    /\ AfterTask(id, tasks, timers, settleTime)
    /\ UNCHANGED <<isApiBusy, apiQueue, tasks, now, started, invoked, enqTime,
                   startTime, clearTime, upstreamCalls>>

\* the promise of in-flight item id settles and processApiQueue resumes
Settle(id) ==
    /\ SettleTask(id)
    /\ UNCHANGED <<item, report, component>>

\* the setTimeout callback: isApiBusy = false; processApiQueue();
TimerFire(t) ==
    /\ t \in timers
    /\ now = t.deadline
    /\ clearTime' = [clearTime EXCEPT ![t.id] = now]
    /\ ProcessApiQueue(FALSE, apiQueue, tasks, timers \ {t})
    /\ UNCHANGED <<tasks, now, enqTime, upstreamCalls, item, report, component>>

\* processApiQueue() invoked on its own, between two event-loop tasks
DrainTrigger ==
    /\ ProcessApiQueue(isApiBusy, apiQueue, tasks, timers)
    /\ UNCHANGED <<tasks, now, enqTime, clearTime, upstreamCalls, item,
                   report, component>>

\* the clock advances to the next pending event
Tick ==
    /\ NextEvent # -1
    /\ now < NextEvent
    /\ now' = NextEvent
    /\ UNCHANGED <<isApiBusy, apiQueue, tasks, inflight, timers, hist,
                   enqTime, clearTime, upstreamCalls, item, report,
                   component>>

Next ==
    \/ \E task \in Tasks : EnqueueApiRequest(task)
    \/ \E id \in Ids : UpstreamCall(id)
    \/ \E id \in Ids : Settle(id)
    \/ \E t \in timers : TimerFire(t)
    \/ DrainTrigger
    \/ Tick

Spec == Init /\ [][Next]_vars

\* The event loop runs due callbacks, started items make their call and
\* settle, and time passes.
FairSpec ==
    /\ Spec
    /\ WF_vars(\E id \in Ids : UpstreamCall(id))
    /\ WF_vars(\E id \in Ids : Settle(id))
    /\ WF_vars(\E t \in timers : TimerFire(t))
    /\ WF_vars(Tick)

TypeOK ==
    /\ isApiBusy \in BOOLEAN
    /\ \A k \in 1..Len(apiQueue) : apiQueue[k] \in 1..Len(tasks)
    /\ inflight \subseteq 1..Len(tasks)
    /\ now \in Nat
    /\ unhandled \in Nat

\* Time also passes while nothing is due: to the middle of the cooldown that
\* follows the last item of a drained queue, and for half a cooldown after
\* the serializer became idle.
Wait ==
    /\ Len(tasks) < MaxItems
    /\ inflight = {}
    /\ apiQueue = <<>>
    /\ started # <<>>
    /\ LET last == started[Len(started)] IN
       \/ timers # {} /\ now = settleTime[last]
       \/ timers = {} /\ ~isApiBusy /\ now = clearTime[last]
    /\ now' = now + (REQUEST_DELAY \div 2)
    /\ NextEvent # -1 => now' <= NextEvent
    /\ UNCHANGED <<isApiBusy, apiQueue, tasks, inflight, timers, hist,
                   enqTime, clearTime, upstreamCalls, item, report,
                   component>>

CooldownNext ==
    \/ Next
    \/ Wait

CooldownSpec == Init /\ [][CooldownNext]_vars

\* ------------------------------------------- the application's closures
\* the closures passed to enqueueApiRequest: index.tsx has ideas, ideaImage,
\* script, transcribe, speech, assess, design, plan and images; imageModule
\* is handleGenerateImage of the image module
Kinds == {"ideas", "ideaImage", "script", "transcribe", "speech", "assess",
          "design", "plan", "images", "imageModule"}

\* the responses an upstream call can resolve with:
\*   ok     the content the closure asks for
\*   thin   the structure without the content: text '{}',
\*          generatedImages [{image: {}}], parts [{text: ...}]
\*   empty  nothing in it: text '', generatedImages [], parts []
\*   blank  the fields themselves are missing: text, generatedImages and
\*          candidates are undefined
Responses == {"ok", "thin", "empty", "blank"}

\* the errors an upstream call can reject with: a network error (TypeError
\* "Failed to fetch"), a quota error (an Error from the SDK), null or
\* undefined
Rejections == {"network", "quota", "nullish"}

\* how the upstream call of a closure ends
CallOutcomes == Responses \cup Rejections
UpstreamFailures == {"thin", "empty", "blank", "network", "quota"}

\* the closures that await something before the upstream call:
\* blobToBase64(audioBlob), Promise.all(extractFramesFromVideo(...))
AwaitsBeforeCallNever(kind) == FALSE
AwaitsBeforeCall(kind) == kind \in {"transcribe", "plan"}

\* if (!isMounted.current) return; between the frames and the upstream call
ReturnsIfUnmountedNever(kind) == FALSE
ReturnsIfUnmounted(kind) == kind = "plan"

\* the closures that read the response before they test isMounted.current
\* (JSON.parse(response.text), response.generatedImages[0],
\* response.candidates[0].content.parts)
ReadsBeforeGuard(it) ==
    \/ it.kind \in {"ideas", "ideaImage", "script"}
    \/ it.kind = "imageModule" /\ it.ref = "usable"

\* const useReferenceImage = referenceImage?.base64 && referenceImage?.mimeType
UseReferenceImage(it) == it.ref = "usable"

\* the responses whose reading throws (a SyntaxError of JSON.parse, a
\* TypeError of a property read on undefined):
\*   ideas       JSON.parse(response.text).ideas.map(...)
\*   script      JSON.parse(response.text).script
\*   ideaImage   response.generatedImages[0].image.imageBytes
\*   imageModule for (const part of response.candidates[0].content.parts)
\*               with a reference image, else as images
\*   transcribe  response.text.trim()
\*   images      response.generatedImages.map(img => img.image.imageBytes)
\*   the others  JSON.parse(response.text)
\* the closures that read inside if (isMounted.current) read nothing once
\* the component is unmounted
Unreadable(kind) ==
    IF kind = "ideas" THEN {"thin", "empty", "blank"}
    ELSE IF kind \in {"transcribe", "images", "imageModule"} THEN {"blank"}
    ELSE {"empty", "blank"}

ReadThrows(it, r) ==
    /\ r \in Unreadable(it.kind)
    /\ ReadsBeforeGuard(it) \/ it.mounted

\* the state setters of the block that follows a response read without
\* error: setIdeas and setActiveScriptIdeaId for script; setTopic and
\* setCustomTopic for a transcript, setError for an empty one; one setter
\* (setIdeas, setSpeechResult, setAssessmentResult, setPlan,
\* setGeneratedImages, or setError when no part has inlineData) otherwise
ResponseSetters(it, r) ==
    IF it.kind = "script" THEN 2
    ELSE IF it.kind = "transcribe" /\ r # "empty" THEN 2
    ELSE 1

\* the state setters of the finally block: setLoadingScript and
\* setScriptLoadingIndex for script, setLoading and setProcessingMessage
\* for plan, the loading setter alone otherwise
FinallySetters(kind) == IF kind \in {"script", "plan"} THEN 2 ELSE 1

\* n state setters of the component are called
SetStates(it, n) ==
    [it EXCEPT !.setters = @ + n,
               !.stale = @ + (IF it.mounted THEN 0 ELSE n)]

\* a state setter of the component is called
SetState(it) == SetStates(it, 1)

\* if (isMounted.current) { setX(...); ... }
GuardedSetAlways(it, n) == SetStates(it, n)
GuardedSet(it, n) == IF it.mounted THEN SetStates(it, n) ELSE it

\* finally { if (isMounted.current) { setLoading(false); ... } }, after
\* which the closure's promise settles with outcome
Finally(it, outcome) ==
    LET a == IF it.mounted
             THEN [SetStates(it, FinallySetters(it.kind)) EXCEPT
                       !.loading = FALSE]
             ELSE it
    IN [a EXCEPT !.pc = "done", !.result = outcome]

\* what makes the catch block itself throw: `result: err.message` with err
\* null or undefined
CatchThrowsOnQuota(err) == err \in {"nullish", "quota"}
CatchThrows(err) == err = "nullish"

\* catch (err) { console.error(err); getApiErrorMessage(err);
\*   logInteraction(user, {..., result: err.message, ...});
\*   if (isMounted.current) setError(...) } finally {...}
Catch(it, err) ==
    LET c == [it EXCEPT !.caught = TRUE] IN
    IF CatchThrows(err) THEN Finally(c, "rejected")
    ELSE Finally(GuardedSet(c, 1), "resolved")

\* const response = await ai.models.generateContent / generateImages (...)
StartCallTwice(it) == [it EXCEPT !.pc = "call", !.calls = @ + 2]
StartCall(it) == [it EXCEPT !.pc = "call", !.calls = @ + 1]

\* the closure from its invocation to its first await (or to its end)
Invoke(it) ==
    IF AwaitsBeforeCall(it.kind) THEN [it EXCEPT !.pc = "pre"]
    ELSE IF it.kind = "imageModule" /\ ~UseReferenceImage(it) /\ it.promptEmpty
    THEN \* setError(...); if (isMounted.current) setLoading(false); return;
         Finally(IF it.mounted
                 THEN [SetState(SetState(it)) EXCEPT !.loading = FALSE]
                 ELSE SetState(it),
                 "resolved")
    ELSE StartCall(it)

\* the closure from the settlement of blobToBase64 / extractFramesFromVideo
\* to its next await (or to its end)
AfterPre(it, o) ==
    LET p == [it EXCEPT !.preOut = o] IN
    IF o = "fail" THEN Catch(p, "preError")
    ELSE IF ReturnsIfUnmounted(p.kind) /\ ~p.mounted THEN Finally(p, "resolved")
    ELSE IF p.kind = "plan" THEN StartCall(SetState(p))
    ELSE StartCall(p)

\* the closure from the settlement of the upstream call to its end
AfterCall(it, o) ==
    LET p == [it EXCEPT !.callOut = o] IN
    IF o \in Rejections \/ ReadThrows(p, o) THEN Catch(p, o)
    ELSE Finally(GuardedSet(p, ResponseSetters(p, o)), "resolved")

\* the executions to consider: each closure as its handler enqueues it (the
\* component is mounted, its loading flag is set); the image module's
\* handler returns before enqueueing when the prompt is empty and there is
\* no reference image
NewItems ==
    {[pc |-> "queued", kind |-> k, ref |-> r, promptEmpty |-> e,
      mounted |-> TRUE, loading |-> TRUE, calls |-> 0, setters |-> 0,
      stale |-> 0, caught |-> FALSE, result |-> "pending",
      preOut |-> "none", callOut |-> "none", unmountedAt |-> "never"] :
        k \in Kinds, r \in {"none", "usable", "unusable"}, e \in BOOLEAN}

EnqueuedItems ==
    {it \in NewItems :
        IF it.kind = "imageModule"
        THEN ~(it.promptEmpty /\ it.ref = "none")
        ELSE it.ref = "none" /\ ~it.promptEmpty}

ItemInit ==
    /\ QueueInit
    /\ item \in EnqueuedItems
    /\ report = NoReport
    /\ component = NoComponent

\* processApiQueue invokes the closure: await requestTask()
ItemStart ==
    /\ item.pc = "queued"
    /\ item' = Invoke(item)
    /\ UNCHANGED <<queueVars, report, component>>

\* what the closure awaits before its upstream call settles
ItemPreSettle(o) ==
    /\ item.pc = "pre"
    /\ item' = AfterPre(item, o)
    /\ UNCHANGED <<queueVars, report, component>>

\* the upstream call settles
ItemCallSettle(o) ==
    /\ item.pc = "call"
    /\ item' = AfterCall(item, o)
    /\ UNCHANGED <<queueVars, report, component>>

\* the component unmounts: isMounted.current = false
Unmount ==
    /\ item.pc # "none"
    /\ item.mounted
    /\ item' = [item EXCEPT !.mounted = FALSE, !.unmountedAt = item.pc]
    /\ UNCHANGED <<queueVars, report, component>>

ItemNext ==
    \/ ItemStart
    \/ \E o \in {"ok", "fail"} : ItemPreSettle(o)
    \/ \E o \in CallOutcomes : ItemCallSettle(o)
    \/ Unmount

ItemSpec == ItemInit /\ [][ItemNext]_vars

\* ---------------------------------------------------- getApiErrorMessage
\* the texts getApiErrorMessage looks for
QuotaMarkers == {"quota", "resource_exhausted", "429"}
ApiKeyMarkers == {"api key not valid", "permission denied"}
InvalidMarkers == {"unexpected token", "json parse"}
SafetyMarkers == {"finishreason: safety", "safety policy"}
ServerMarkers == {"network error", "server error", "500"}
Markers ==
    QuotaMarkers \cup ApiKeyMarkers \cup InvalidMarkers \cup SafetyMarkers
    \cup ServerMarkers \cup {"failed to fetch"}

\* A text is the set of marker occurrences in it; an occurrence is written
\* in lower case (up = FALSE) or with capitals (up = TRUE).
Tokens == [m : Markers, up : BOOLEAN]
RECURSIVE SetsUpTo(_, _)
SetsUpTo(S, n) ==
    IF n = 0 THEN {{}}
    ELSE LET p == SetsUpTo(S, n - 1)
         IN p \cup {t \cup {k} : t \in p, k \in S}
Texts == SetsUpTo(Tokens, MaxMarkers)

\* the occurrences in a plain object, each in the object's message, in its
\* error.message or in another property
PlacedTokens == [m : Markers, up : BOOLEAN, at : {"message", "inner", "other"}]
TextAt(placed, f) == {[m |-> k.m, up |-> k.up] : k \in {j \in placed : j.at = f}}

\* String.prototype.toLowerCase
ToLowerCaseIdentity(text) == text
ToLowerCase(text) == {[m |-> t.m, up |-> FALSE] : t \in text}

\* String.prototype.includes with a lower-case needle
Includes(text, needle) == [m |-> needle, up |-> FALSE] \in text
IncludesAny(text, needles) == \E n \in needles : Includes(text, n)

\* The error values: an Error instance of class cls (its name is the class
\* name) with a message; a string; a plain object with the texts of its
\* message, of its error.message and of its other properties, which
\* JSON.stringify can serialise or not (cyclic: a circular reference, a
\* BigInt value); and null, undefined and a number.
ErrorInstances ==
    [shape : {"Error"}, cls : {"Error", "TypeError", "SyntaxError"},
     message : Texts, inner : {{}}, other : {{}}, cyclic : {FALSE}]
StringErrors ==
    [shape : {"string"}, cls : {"none"}, message : Texts, inner : {{}},
     other : {{}}, cyclic : {FALSE}]
ObjectErrors ==
    {[shape |-> "object", cls |-> "none", message |-> TextAt(t, "message"),
      inner |-> TextAt(t, "inner"), other |-> TextAt(t, "other"),
      cyclic |-> c] :
        t \in SetsUpTo(PlacedTokens, MaxMarkers), c \in BOOLEAN}
EmptyErrors ==
    [shape : {"null", "undefined", "number"}, cls : {"none"},
     message : {{}}, inner : {{}}, other : {{}}, cyclic : {FALSE}]
Errors == ErrorInstances \cup StringErrors \cup ObjectErrors \cup EmptyErrors

\* JSON.stringify(error) throws a TypeError
JsonStringifyThrows(e) == e.shape = "object" /\ e.cyclic

\* combinedMessage
CombinedMessageNoInner(e) ==
    IF e.shape \in {"Error", "string"} THEN e.message
    ELSE IF e.shape = "object" THEN e.message \cup e.other
    ELSE {}
CombinedMessage(e) ==
    IF e.shape = "Error" THEN e.message
    ELSE IF e.shape = "string" THEN e.message
    ELSE IF e.shape = "object"
    THEN \* [error.message, error.error?.message, JSON.stringify(error)]
         \*   .filter(Boolean).join(' ')
         e.message \cup e.inner \cup (e.message \cup e.inner \cup e.other)
    ELSE {}

\* the order of the if statements after combinedMessage is lower-cased
CategoryOrderKeyFirst == <<"apikey", "quota", "invalid", "safety", "server">>
CategoryOrder == <<"quota", "apikey", "invalid", "safety", "server">>

\* the condition of the if statement of category c
CategoryTest(c, e, lower) ==
    IF c = "quota" THEN IncludesAny(lower, QuotaMarkers)
    ELSE IF c = "apikey" THEN IncludesAny(lower, ApiKeyMarkers)
    ELSE IF c = "invalid"
    THEN (e.shape = "Error" /\ e.cls = "SyntaxError")
         \/ IncludesAny(lower, InvalidMarkers)
    ELSE IF c = "safety" THEN IncludesAny(lower, SafetyMarkers)
    ELSE IncludesAny(lower, ServerMarkers)

\* getApiErrorMessage(error): the message returned, named by its category,
\* or "throws" when the call throws
GetApiErrorMessage(e) ==
    IF /\ e.shape = "Error"
       /\ e.cls = "TypeError"
       /\ Includes(ToLowerCase(e.message), "failed to fetch")
    THEN "network"
    ELSE IF JsonStringifyThrows(e) THEN "throws"
    ELSE LET lower == ToLowerCase(CombinedMessage(e))
             hits == {k \in 1..Len(CategoryOrder) :
                         CategoryTest(CategoryOrder[k], e, lower)}
         IN IF hits = {} THEN "generic"
            ELSE CategoryOrder[CHOOSE k \in hits : \A j \in hits : k <= j]

\* getApiErrorMessage(error) of part_000: the string test comes first, there
\* is no TypeError branch, and only the quota markers are looked for
GetApiErrorMessagePart000(e) ==
    IF JsonStringifyThrows(e) THEN "throws"
    ELSE IF IncludesAny(ToLowerCase(CombinedMessage(e)), QuotaMarkers)
    THEN "quota"
    ELSE "generic"

ReportInit ==
    /\ QueueInit
    /\ item = NoItem
    /\ component = NoComponent
    /\ report \in {[pc |-> "call", error |-> e, message |-> "none",
                    message000 |-> "none"] : e \in Errors}

\* getApiErrorMessage(error) is called and returns
Classify ==
    /\ report.pc = "call"
    /\ report' = [report EXCEPT
                    !.pc = "done",
                    !.message = GetApiErrorMessage(report.error),
                    !.message000 = GetApiErrorMessagePart000(report.error)]
    /\ UNCHANGED <<queueVars, item, component>>

ReportNext == Classify

ReportSpec == ReportInit /\ [][ReportNext]_vars

\* ---------------------------------------------------------- CreativeCorner
\* The component's state (ideas, loadingIdeas, loadingScript, imageLoading)
\* and, by item id, what each closure it enqueued captured: the kind of
\* request, the index and the idea it was requested for. An idea is named by
\* the item id of the generation that produced it. gone holds the items that
\* were still queued when their component unmounted.
NewCorner(since, reqs, gone) ==
    [pc |-> "mounted", since |-> since, ideas |-> <<>>,
     loadingIdeas |-> FALSE, loadingScript |-> FALSE, imageLoading |-> {},
     reqs |-> reqs, gone |-> gone]

\* isMounted.current, as the closure of item id reads it: the ref of the
\* instance that enqueued it
IsMounted(c, id) == c.pc = "mounted" /\ id > c.since

\* the closures of CreativeCorner make one upstream call and catch its
\* failure: their promise resolves, unless the call rejects with null or
\* undefined, when the catch block throws at err.message and the promise
\* rejects
CornerTask ==
    {[beh |-> b, dur |-> 10, calls |-> 1] : b \in {"resolve", "reject"}}

\* <button onClick={handleGenerateIdeas} disabled={loadingIdeas}>
IdeasButtonDisabledNever(c) == FALSE
IdeasButtonDisabled(c) == c.loadingIdeas

\* the image button of idea i is rendered
ImageButtonShown(c, i) ==
    /\ i \in 1..Len(c.ideas)
    /\ i \notin c.imageLoading
    /\ c.ideas[i].image = 0

\* <button onClick={() => handleGenerateScript(idea, index)}
\*         disabled={loadingScript}>
ScriptButtonEnabled(c, i) ==
    /\ i \in 1..Len(c.ideas)
    /\ ~c.loadingScript

\* currentIdeas.map((item, idx) => idx === index ? {...item, [f]: v} : item)
MapAt(ideas, index, f, v) ==
    [k \in 1..Len(ideas) |->
        IF k = index THEN [ideas[k] EXCEPT ![f] = v] ELSE ideas[k]]

\* what the upstream call of a closure gives:
\*   fail  a rejection, or a response whose reading throws (text that is
\*         no JSON or has no ideas list, generatedImages [])
\*   thin  a response that is read without error and lacks the content:
\*         text '{}' or '{"script": null}' for a script,
\*         generatedImages [{image: {}}] for an image
\*   ok    the content; for an idea generation the ideas of the response,
\*         which may carry fields beyond the schema asked for, imageUrl and
\*         script among them
IdeaLists ==
    {<<>>} \cup UNION {[1..n -> [image : BOOLEAN, script : BOOLEAN]] :
                          n \in IdeaIndexes}
CornerOutcomes ==
    {[r |-> "ok", ideas |-> l] : l \in IdeaLists}
    \cup {[r |-> x, ideas |-> <<>>] : x \in {"thin", "fail"}}

\* the closure of handleGenerateIdeas from the response to its end:
\* parsedResponse.ideas.map((idea, index) => ({...idea, id: ...}))
IdeasResult(c, id, out) ==
    LET live == IsMounted(c, id)
        a == IF out.r = "ok" /\ live
             THEN [c EXCEPT !.ideas =
                     [k \in 1..Len(out.ideas) |->
                        [gen |-> id,
                         image |-> IF out.ideas[k].image THEN id ELSE 0,
                         script |-> IF out.ideas[k].script THEN id ELSE 0]]]
             ELSE c
    IN IF live THEN [a EXCEPT !.loadingIdeas = FALSE] ELSE a

\* the closure of handleGenerateImage from the response to its end:
\* imageUrl is a non-empty string whatever imageBytes is
ImageResult(c, id, out) ==
    LET live == IsMounted(c, id)
        req == c.reqs[id]
        a == IF out.r \in {"ok", "thin"} /\ live
             THEN [c EXCEPT !.ideas = MapAt(@, req.index, "image", req.gen)]
             ELSE c
    IN IF live THEN [a EXCEPT !.imageLoading = @ \ {req.index}] ELSE a

\* the closure of handleGenerateScript from the response to its end:
\* const newScript = parsedResponse.script, written as it is (undefined or
\* null when the response has no script)
ScriptResult(c, id, out) ==
    LET live == IsMounted(c, id)
        req == c.reqs[id]
        newScript == IF out.r = "ok" THEN req.gen ELSE 0
        a == IF out.r \in {"ok", "thin"} /\ live
             THEN [c EXCEPT !.ideas = MapAt(@, req.index, "script", newScript)]
             ELSE c
    IN IF live THEN [a EXCEPT !.loadingScript = FALSE] ELSE a

CornerResult(c, id, out) ==
    IF c.reqs[id].kind = "ideas" THEN IdeasResult(c, id, out)
    ELSE IF c.reqs[id].kind = "image" THEN ImageResult(c, id, out)
    ELSE ScriptResult(c, id, out)

\* the cleanup of the component's effect leaves apiQueue alone
CleanupQueueCancels(q) == <<>>
CleanupQueue(q) == q

CornerInit ==
    /\ QueueInit
    /\ item = NoItem
    /\ report = NoReport
    /\ component = NewCorner(0, <<>>, {})

\* handleGenerateIdeas() with the form filled in
HandleGenerateIdeas ==
    /\ component.pc = "mounted"
    /\ ~IdeasButtonDisabled(component)
    /\ component' = [component EXCEPT
                    !.loadingIdeas = TRUE,
                    !.ideas = <<>>,
                    !.reqs = Append(@, [kind |-> "ideas", index |-> 0,
                                        gen |-> Len(tasks) + 1])]
    /\ \E task \in CornerTask : EnqueueApiRequestCall(task)
    /\ UNCHANGED <<item, report>>

\* handleGenerateImage(idea, index)
HandleGenerateImage(i) ==
    /\ component.pc = "mounted"
    /\ ImageButtonShown(component, i)
    /\ component' = [component EXCEPT
                    !.imageLoading = @ \cup {i},
                    !.reqs = Append(@, [kind |-> "image", index |-> i,
                                        gen |-> component.ideas[i].gen])]
    /\ \E task \in CornerTask : EnqueueApiRequestCall(task)
    /\ UNCHANGED <<item, report>>

\* handleGenerateScript(idea, index)
HandleGenerateScript(i) ==
    /\ component.pc = "mounted"
    /\ ScriptButtonEnabled(component, i)
    /\ component' = [component EXCEPT
                    !.loadingScript = TRUE,
                    !.reqs = Append(@, [kind |-> "script", index |-> i,
                                        gen |-> component.ideas[i].gen])]
    /\ \E task \in CornerTask : EnqueueApiRequestCall(task)
    /\ UNCHANGED <<item, report>>

\* the upstream call of item id ends with out (a failure, when the closure
\* rejects; for an idea generation a response without an ideas list is a
\* failure, and only its response carries ideas), the closure runs to its
\* end and processApiQueue resumes
CornerSettle(id, out) ==
    /\ SettleTask(id)
    /\ tasks[id].beh = "reject" => out.r = "fail"
    /\ component.reqs[id].kind = "ideas" => out.r # "thin"
    /\ component.reqs[id].kind # "ideas" => out.ideas = <<>>
    /\ component' = CornerResult(component, id, out)
    /\ UNCHANGED <<item, report>>

\* the component unmounts: isMounted.current = false
CornerUnmount ==
    /\ component.pc = "mounted"
    /\ component' = [component EXCEPT
                    !.pc = "unmounted",
                    !.gone = @ \cup {apiQueue[k] : k \in 1..Len(apiQueue)}]
    /\ apiQueue' = CleanupQueue(apiQueue)
    /\ UNCHANGED <<isApiBusy, tasks, inflight, timers, now, hist, enqTime,
                   clearTime, upstreamCalls, item, report>>

\* the component is mounted again: a new instance with new state and a new
\* isMounted ref
CornerMount ==
    /\ component.pc = "unmounted"
    /\ component' = NewCorner(Len(tasks), component.reqs, component.gone)
    /\ UNCHANGED <<queueVars, item, report>>

CornerNext ==
    \/ HandleGenerateIdeas
    \/ \E i \in IdeaIndexes : HandleGenerateImage(i)
    \/ \E i \in IdeaIndexes : HandleGenerateScript(i)
    \/ \E id \in Ids : UpstreamCall(id)
    \/ \E id \in Ids, out \in CornerOutcomes : CornerSettle(id, out)
    \/ \E t \in timers : TimerFire(t)
    \/ Tick
    \/ CornerUnmount
    \/ CornerMount

CornerSpec == CornerInit /\ [][CornerNext]_vars

\* --------------------------------------------------- SpeechGenerationModule
\* The component's state (loading, isProcessingSpeech, isRecording), the
\* getUserMedia promises that have not settled (pendingMedia), the stop
\* events of stopped recorders that have not been dispatched (pendingStops)
\* and, by item id, the kind of closure it enqueued. While isRecording is
\* true, mediaRecorder is the recorder of the last grant.
NewSpeech ==
    [pc |-> "speech", loading |-> FALSE, isProcessingSpeech |-> FALSE,
     isRecording |-> FALSE, pendingMedia |-> 0, pendingStops |-> 0,
     reqs |-> <<>>]

\* the closures of the module catch every failure: their promise resolves,
\* unless the upstream call rejects with null or undefined, when the catch
\* block throws at err.message and the promise rejects. The transcription
\* closure makes no upstream call when blobToBase64(audioBlob) rejects.
SpeechTask(kind) ==
    {[beh |-> b, dur |-> 10, calls |-> 1] : b \in {"resolve", "reject"}}
    \cup (IF kind = "transcribe"
          THEN {[beh |-> "resolve", dur |-> 10, calls |-> 0]}
          ELSE {})

\* <button onClick={handleToggleRecording} disabled={loading}>
RecordButtonDisabled(c) == c.loading

\* <button onClick={handleGenerateSpeech}
\*         disabled={loading || isProcessingSpeech}>
SpeechButtonDisabled(c) == c.loading \/ c.isProcessingSpeech

\* finally { if (isMounted.current) setIsProcessingSpeech(false) } of the
\* transcription closure, finally { ... setLoading(false) } of the speech
\* closure
SpeechResult(c, id) ==
    IF c.pc # "speech" THEN c
    ELSE IF c.reqs[id] = "transcribe"
    THEN [c EXCEPT !.isProcessingSpeech = FALSE]
    ELSE [c EXCEPT !.loading = FALSE]

SpeechInit ==
    /\ QueueInit
    /\ item = NoItem
    /\ report = NoReport
    /\ component = NewSpeech

\* handleToggleRecording(): if (isRecording && mediaRecorder) {
\*   mediaRecorder.stop(); setIsRecording(false) }
\* else navigator.mediaDevices.getUserMedia({ audio: true })
HandleToggleRecording ==
    /\ component.pc = "speech"
    /\ ~RecordButtonDisabled(component)
    /\ IF component.isRecording
       THEN /\ component.pendingStops < MaxPending
            /\ component' = [component EXCEPT
                               !.isRecording = FALSE,
                               !.pendingStops = @ + 1]
       ELSE /\ component.pendingMedia < MaxPending
            /\ component' = [component EXCEPT !.pendingMedia = @ + 1]
    /\ UNCHANGED <<queueVars, item, report>>

\* .then(stream => { ...; recorder.start(); setMediaRecorder(recorder);
\*                   setIsRecording(true) })
GetUserMediaThen ==
    /\ component.pendingMedia > 0
    /\ component' = [component EXCEPT
                       !.pendingMedia = @ - 1,
                       !.isRecording = TRUE]
    /\ UNCHANGED <<queueVars, item, report>>

\* .catch(err => { console.error(...); setError(...) })
GetUserMediaCatch ==
    /\ component.pendingMedia > 0
    /\ component' = [component EXCEPT !.pendingMedia = @ - 1]
    /\ UNCHANGED <<queueVars, item, report>>

\* recorder.onstop: if (!isMounted.current) return;
\* setIsProcessingSpeech(true); ...; enqueueApiRequest(async () => {...})
RecorderOnstop ==
    /\ component.pendingStops > 0
    /\ IF component.pc = "speech"
       THEN /\ component' = [component EXCEPT
                               !.pendingStops = @ - 1,
                               !.isProcessingSpeech = TRUE,
                               !.reqs = Append(@, "transcribe")]
            /\ \E task \in SpeechTask("transcribe") :
                  EnqueueApiRequestCall(task)
       ELSE /\ component' = [component EXCEPT !.pendingStops = @ - 1]
            /\ UNCHANGED queueVars
    /\ UNCHANGED <<item, report>>

\* handleGenerateSpeech() with the form filled in
HandleGenerateSpeech ==
    /\ component.pc = "speech"
    /\ ~SpeechButtonDisabled(component)
    /\ component' = [component EXCEPT
                       !.loading = TRUE,
                       !.reqs = Append(@, "speech")]
    /\ \E task \in SpeechTask("speech") : EnqueueApiRequestCall(task)
    /\ UNCHANGED <<item, report>>

\* the closure of item id runs to its end and processApiQueue resumes
SpeechSettle(id) ==
    /\ SettleTask(id)
    /\ component' = SpeechResult(component, id)
    /\ UNCHANGED <<item, report>>

\* the component unmounts: isMounted.current = false
SpeechUnmount ==
    /\ component.pc = "speech"
    /\ component' = [component EXCEPT !.pc = "unmounted"]
    /\ UNCHANGED <<queueVars, item, report>>

SpeechNext ==
    \/ HandleToggleRecording
    \/ GetUserMediaThen
    \/ GetUserMediaCatch
    \/ RecorderOnstop
    \/ HandleGenerateSpeech
    \/ \E id \in Ids : UpstreamCall(id)
    \/ \E id \in Ids : SpeechSettle(id)
    \/ \E t \in timers : TimerFire(t)
    \/ Tick
    \/ SpeechUnmount

SpeechSpec == SpeechInit /\ [][SpeechNext]_vars

\* ----------------------------------------------------------------- claims
Enqueued(id) == id <= Len(tasks)
Started(id) == startTime[id] # -1
Settled(id) == settleTime[id] # -1
Failed(id) == Enqueued(id) /\ tasks[id].beh \in {"throw", "reject"}
InQueue(id) == Cardinality({k \in 1..Len(apiQueue) : apiQueue[k] = id})
LogCount(id) == Cardinality({k \in 1..Len(errorLog) : errorLog[k] = id})

\* C1: work items start in exactly the order in which they were enqueued:
\* the k-th item to start is the k-th item enqueued, however long earlier
\* items take to settle.
C1_FifoOrder == \A k \in 1..Len(started) : started[k] = k
\* three items started, the first of them long-running, the other two
\* enqueued while it was in flight
C1_Witness ==
    /\ Len(started) = 3
    /\ tasks[1].dur = 70000
    /\ enqTime[2] < settleTime[1]
    /\ enqTime[3] < settleTime[1]

\* C2: at most one work item has been started and has not yet settled, and
\* no item is in flight while another item's cooldown is pending.
C2_MutualExclusion ==
    Cardinality(inflight \cup {t.id : t \in timers}) <= 1
\* an item is in flight while two more wait in the queue
C2_Witness == inflight # {} /\ Len(apiQueue) >= 2

\* C3: consecutive items are at least REQUEST_DELAY apart, measured from
\* the settlement of the first to the start of the second, and a cooldown
\* timer is pending only for an item that has settled.
C3_MinimumSpacing ==
    /\ \A k \in 1..(Len(started) - 1) :
          /\ Settled(started[k])
          /\ startTime[started[k + 1]]
                >= settleTime[started[k]] + REQUEST_DELAY
    /\ \A t \in timers :
          /\ t.id \notin inflight
          /\ Settled(t.id)
          /\ t.deadline >= settleTime[t.id] + REQUEST_DELAY
\* a long-running item settled and its successor started
C3_Witness ==
    /\ Len(started) >= 2
    /\ tasks[1].dur = 70000
    /\ startTime[2] = 70000 + REQUEST_DELAY

\* C4: when item N fails (throws synchronously or rejects) and item N+1 was
\* queued by then, item N+1 starts exactly REQUEST_DELAY after the failure,
\* and it does eventually start: a failure never stops the queue for good.
C4_LivenessUnderFailure ==
    /\ [](\A k \in 1..(MaxItems - 1) :
            (Failed(k) /\ Started(k + 1) /\ enqTime[k + 1] <= settleTime[k])
                => startTime[k + 1] = settleTime[k] + REQUEST_DELAY)
    /\ \A k \in 1..(MaxItems - 1) :
          (Failed(k) /\ Started(k) /\ Enqueued(k + 1)) ~> Started(k + 1)
\* a synchronous throw and a rejection in a row, and the item after them
\* started
C4_Witness ==
    /\ Len(tasks) >= 3
    /\ tasks[1].beh = "throw"
    /\ tasks[2].beh = "reject"
    /\ Started(3)

\* C5: any two upstream calls start at least REQUEST_DELAY apart, which is
\* more than 60 seconds, and every upstream call is started by a work item
\* between its invocation and its settlement.
C5_RateLimit ==
    /\ \A i, j \in 1..Len(upstreamCalls) :
          i < j =>
            /\ upstreamCalls[j].time - upstreamCalls[i].time >= REQUEST_DELAY
            /\ upstreamCalls[j].time - upstreamCalls[i].time > 60000
    /\ \A i \in 1..Len(upstreamCalls) :
          LET c == upstreamCalls[i] IN
          /\ Started(c.id)
          /\ startTime[c.id] <= c.time
          /\ Settled(c.id) => c.time <= settleTime[c.id]
\* two upstream calls were made, the second by an item enqueued while the
\* first was in flight
C5_Witness ==
    /\ Len(upstreamCalls) >= 2
    /\ enqTime[upstreamCalls[2].id] <= upstreamCalls[1].time

\* C6: an enqueued item stays in the queue until it is started, and, when
\* timers fire and no started item hangs forever, every enqueued item is
\* eventually started.
C6_NoLoss ==
    /\ [][\A id \in Ids :
            (InQueue(id) > 0) => (InQueue(id)' > 0 \/ Started(id)')]_vars
    /\ [](\A id \in Ids : Enqueued(id) => (InQueue(id) > 0 \/ Started(id)))
    /\ \A id \in Ids :
          Enqueued(id) ~> (Started(id) \/ \E j \in inflight : Hangs(j))
\* the last item was enqueued after the first one had started, behind an
\* item that was still waiting, and has started
C6_Witness ==
    /\ Len(tasks) = MaxItems
    /\ Started(MaxItems)
    /\ Settled(1)
    /\ enqTime[MaxItems] >= settleTime[1]
    /\ enqTime[MaxItems] < startTime[MaxItems - 1]

\* C7: every enqueued item is either waiting in apiQueue exactly once and
\* not yet invoked, or out of the queue and invoked exactly once.
C7_InvokedOnce ==
    \A id \in Ids :
        IF Enqueued(id)
        THEN \/ InQueue(id) = 1 /\ invoked[id] = 0
             \/ InQueue(id) = 0 /\ invoked[id] = 1
        ELSE InQueue(id) = 0 /\ invoked[id] = 0
\* a failed item's cooldown is over and the serializer is idle again
C7_Witness ==
    /\ Failed(1)
    /\ clearTime[1] # -1
    /\ ~isApiBusy
    /\ invoked[1] = 1

\* C8 as stated: the serializer never logs a work item's error and never
\* lets it escape.
C8_NeverLogs == errorLog = <<>> /\ unhandled = 0
\* C8: a failed item's error is not re-thrown; it is passed to
\* console.error exactly once, and the cooldown timer is armed.  A
\* successful item is not logged.
C8_LogsAndArms ==
    /\ unhandled = 0
    /\ \A id \in Ids :
          Settled(id) =>
            /\ LogCount(id) = (IF Failed(id) THEN 1 ELSE 0)
            /\ (\E t \in timers : t.id = id) \/ clearTime[id] # -1
\* a thrown and a rejected error were both logged
C8_Witness ==
    /\ Len(errorLog) >= 2
    /\ \E i, j \in Ids :
          /\ Failed(i) /\ tasks[i].beh = "throw" /\ LogCount(i) = 1
          /\ Failed(j) /\ tasks[j].beh = "reject" /\ LogCount(j) = 1

\* C9: the promise returned by processApiQueue never rejects, whatever the
\* work item does, and an item enqueued in the same instant as an item that
\* started at once starts REQUEST_DELAY after that item is over.
C9_EnqueueAlwaysSucceeds ==
    /\ unhandled = 0
    /\ \A k \in 1..(MaxItems - 1) :
          (/\ Started(k + 1)
           /\ startTime[k] = enqTime[k]
           /\ enqTime[k + 1] = enqTime[k])
             => startTime[k + 1] = settleTime[k] + REQUEST_DELAY
\* the first item threw synchronously; the second, enqueued right after it,
\* has started
C9_Witness ==
    /\ Len(tasks) >= 2
    /\ tasks[1].beh = "throw"
    /\ enqTime[2] = enqTime[1]
    /\ Started(2)

\* C10: the cooldown after an item is REQUEST_DELAY whatever the item's
\* outcome and whatever happened before: the timer's deadline, and the
\* moment isApiBusy is cleared, are exactly REQUEST_DELAY after the item's
\* settlement.
C10_FixedCooldown ==
    /\ \A t \in timers : t.deadline = settleTime[t.id] + REQUEST_DELAY
    /\ \A id \in Ids :
          clearTime[id] # -1 => clearTime[id] = settleTime[id] + REQUEST_DELAY
\* a success after a failure: both cooldowns are over
C10_Witness ==
    /\ Failed(1)
    /\ Len(tasks) >= 2
    /\ tasks[2].beh = "resolve"
    /\ clearTime[1] # -1
    /\ clearTime[2] # -1

\* the items started so far followed by the items still queued
Schedule == started \o apiQueue

\* C11: a step that only invokes processApiQueue (no enqueue, no
\* settlement, no timer callback, no upstream call, no clock step) changes
\* nothing; at most one
\* cooldown timer is ever pending; and no queued item is skipped: started
\* and queued items together are always the enqueued items in order.
C11_IdempotentDrain ==
    /\ [][(/\ tasks' = tasks
           /\ now' = now
           /\ upstreamCalls' = upstreamCalls
           /\ timers \subseteq timers'
           /\ inflight \subseteq inflight')
          => UNCHANGED vars]_vars
    /\ [](Cardinality(timers) <= 1)
    /\ [](Schedule = [k \in 1..Len(tasks) |-> k])
\* processApiQueue was invoked by an enqueue during a cooldown: the timer is
\* still the only one and both waiting items are still queued
C11_Witness ==
    /\ isApiBusy
    /\ Len(apiQueue) = 2
    /\ inflight = {}
    /\ Cardinality(timers) = 1

\* C12: isApiBusy is true exactly when a work item is in flight or a
\* cooldown timer is pending; it is already set when an item leaves the
\* queue, and only a cooldown timer's callback clears it.
C12_BusyFlag ==
    /\ [](isApiBusy <=> (inflight # {} \/ timers # {}))
    /\ [][(Len(started') > Len(started)) => isApiBusy']_vars
    /\ [][(isApiBusy /\ ~isApiBusy')
          => \E t \in timers : t \notin timers' /\ now = t.deadline]_vars
\* the flag has been set for an item and cleared again by its timer
C12_Witness ==
    /\ ~isApiBusy
    /\ Len(started) >= 1
    /\ clearTime[started[Len(started)]] = now

\* sum over j < i of (duration of item j + REQUEST_DELAY)
RECURSIVE ExpectedStart(_)
ExpectedStart(i) ==
    IF i <= 1 THEN 0
    ELSE ExpectedStart(i - 1) + tasks[i - 1].dur + REQUEST_DELAY

\* C13: when items 1..i are all enqueued at time 0 into the idle
\* serializer, item 1 starts at time 0 and item i starts at the sum over
\* j < i of (dj + REQUEST_DELAY), dj being how long item j took to settle.
C13_TimingScenario ==
    \A i \in Ids :
        (Started(i) /\ \A j \in 1..i : enqTime[j] = 0)
            => /\ startTime[i] = ExpectedStart(i)
               /\ Settled(i) => settleTime[i] = ExpectedStart(i) + tasks[i].dur
\* three 10 ms items enqueued at time 0: they start at 0, 10 + D and
\* 2 * (10 + D), and the last one is over at 2 * (10 + D) + 10
C13_Witness ==
    /\ Len(tasks) >= 3
    /\ \A j \in 1..3 : enqTime[j] = 0 /\ tasks[j].dur = 10 /\ Settled(j)
    /\ startTime[1] = 0
    /\ startTime[2] = 10 + REQUEST_DELAY
    /\ startTime[3] = 2 * (10 + REQUEST_DELAY)
    /\ settleTime[3] = 2 * (10 + REQUEST_DELAY) + 10

\* C14: enqueueApiRequest appends the item to the tail of apiQueue; when
\* the serializer is idle the item is shifted out again and invoked within
\* the same call, so it is marked started at the time of the enqueue and
\* the flag is set when the call returns; when the serializer is busy the
\* item is left at the tail.
C14_EnqueueTriggers ==
    [][(tasks' # tasks) =>
         LET id == Len(tasks') IN
         IF ~isApiBusy /\ apiQueue = <<>>
         THEN /\ started' = Append(started, id)
              /\ startTime'[id] = now
              /\ invoked'[id] = 1
              /\ apiQueue' = <<>>
              /\ isApiBusy'
         ELSE /\ apiQueue' = Append(apiQueue, id)
              /\ started' = started]_vars
\* an item enqueued after an earlier cooldown was over started in the
\* enqueue call itself
C14_Witness ==
    /\ Len(tasks) >= 2
    /\ enqTime[2] >= REQUEST_DELAY
    /\ startTime[2] = enqTime[2]
    /\ Len(apiQueue) >= 1

ItemDone == item.pc = "done"

\* C15: when the upstream call of a closure fails with a network error, a
\* quota error or a malformed response, the closure's promise still
\* resolves, so the catch branch of processApiQueue is not reached.
C15_CaughtInItem ==
    (ItemDone /\ item.callOut \in UpstreamFailures) => item.result = "resolved"
\* a quota error went through the closure's catch block and the closure
\* resolved
C15_Witness ==
    /\ ItemDone
    /\ item.callOut = "quota"
    /\ item.caught
    /\ item.result = "resolved"

\* the paths on which a closure ends without an upstream call
ZeroCallPath ==
    \/ item.preOut = "fail"
    \/ item.kind = "plan" /\ item.preOut = "ok"
         /\ item.unmountedAt \in {"queued", "pre"}
    \/ item.kind = "imageModule" /\ item.ref # "usable" /\ item.promptEmpty

\* C16 as stated: every execution of a closure makes exactly one upstream
\* call.
C16_ExactlyOneCall == ItemDone => item.calls = 1
\* C16: an execution makes at most one upstream call, and it makes none
\* exactly when what it awaits before the call fails, when the video-plan
\* component has unmounted before the call, or when the image module finds
\* an empty prompt and no usable reference image.
C16_AtMostOneCall ==
    /\ item.pc # "none" => item.calls <= 1
    /\ ItemDone => item.calls = (IF ZeroCallPath THEN 0 ELSE 1)
\* a video-plan execution ended without a call because the component had
\* unmounted while the frames were extracted
C16_Witness ==
    /\ ItemDone
    /\ item.kind = "plan"
    /\ item.preOut = "ok"
    /\ item.unmountedAt = "pre"
    /\ item.calls = 0

\* C17: a closure never calls a state setter of its component once the
\* component has unmounted.
C17_NoStaleUpdate == item.pc # "none" => item.stale = 0

\* C18: once an item whose promise never settles has been started, the
\* flag stays set, the item stays in flight, no cooldown timer is armed and
\* no item enqueued after it is ever started.
C18_NoTimeout ==
    \A id \in Ids :
        (Enqueued(id) /\ tasks[id].beh = "hang" /\ Started(id))
            => /\ isApiBusy
               /\ id \in inflight
               /\ ~Settled(id)
               /\ timers = {}
               /\ \A j \in Ids : j > id => ~Started(j)
\* the second item hangs, after the first one's cooldown, and a third item
\* waits behind it
C18_Witness ==
    /\ Len(tasks) >= 3
    /\ tasks[2].beh = "hang"
    /\ Started(2)
    /\ clearTime[1] # -1
    /\ InQueue(3) = 1

\* the error's text contains one of the markers, in any casing
Mentions(e, ms) ==
    \E t \in e.message \cup e.inner \cup e.other : t.m \in ms

\* C19: a TypeError whose message contains 'failed to fetch' gets the
\* network-connection message; any other error gets the message of the
\* first category it matches in the order quota, API key, invalid response
\* (SyntaxError instance or marker), safety, server, and the generic
\* message when it matches none; markers match in any casing. This is about
\* the calls that return.
C19_Priority ==
    (report.pc = "done" /\ report.message # "throws") =>
        LET e == report.error IN
        report.message =
            IF e.cls = "TypeError" /\ Mentions(e, {"failed to fetch"})
            THEN "network"
            ELSE IF Mentions(e, QuotaMarkers) THEN "quota"
            ELSE IF Mentions(e, ApiKeyMarkers) THEN "apikey"
            ELSE IF e.cls = "SyntaxError" \/ Mentions(e, InvalidMarkers)
            THEN "invalid"
            ELSE IF Mentions(e, SafetyMarkers) THEN "safety"
            ELSE IF Mentions(e, ServerMarkers) THEN "server"
            ELSE "generic"
\* a SyntaxError whose message holds an API-key marker in capitals and a
\* server marker was classified as an API-key error
C19_Witness ==
    /\ report.pc = "done"
    /\ report.error.cls = "SyntaxError"
    /\ report.error.message = {[m |-> "permission denied", up |-> TRUE],
                               [m |-> "500", up |-> FALSE]}
    /\ report.message = "apikey"

\* C20: between event-loop tasks, a clear busy flag means the queue is
\* empty, so a non-empty queue is never left with the flag clear and no
\* timer pending.
C20_Quiescent ==
    /\ ~isApiBusy => apiQueue = <<>>
    /\ ~(apiQueue # <<>> /\ ~isApiBusy /\ timers = {})
\* the last timer found the queue empty and left the flag clear after at
\* least two items, one of which had waited in the queue
C20_Witness ==
    /\ ~isApiBusy
    /\ Len(tasks) >= 2
    /\ \A i \in 1..Len(tasks) : clearTime[i] # -1
    /\ \E i \in 1..Len(tasks) : startTime[i] > enqTime[i]

\* C21: enqueueApiRequest called while isApiBusy is true only appends the
\* item to the tail of apiQueue: it starts no item, leaves isApiBusy and the
\* in-flight item alone, and neither adds, removes nor changes a timer.
C21_EnqueueWhileBusyFrame ==
    [][(isApiBusy /\ tasks' # tasks) =>
          /\ apiQueue' = Append(apiQueue, Len(tasks'))
          /\ isApiBusy' = isApiBusy
          /\ inflight' = inflight
          /\ timers' = timers
          /\ started' = started
          /\ invoked' = invoked
          /\ startTime' = startTime
          /\ settleTime' = settleTime
          /\ upstreamCalls' = upstreamCalls
          /\ clearTime' = clearTime
          /\ now' = now]_vars
\* two items were enqueued behind an item that is cooling down, the later
\* one while the timer was already pending
C21_Witness ==
    /\ isApiBusy
    /\ Len(apiQueue) >= 2
    /\ timers # {}
    /\ \E t \in timers : enqTime[apiQueue[Len(apiQueue)]] >= settleTime[t.id]
                         /\ settleTime[t.id] > startTime[t.id]

\* C22: the cooldown also runs after the last item of a drained queue. An
\* item enqueued within REQUEST_DELAY after the previous item settled does
\* not start before that settlement plus REQUEST_DELAY and starts exactly
\* when the timer fires; a timer that fires with an empty queue leaves the
\* serializer idle with no timer pending; an item enqueued while idle
\* starts at once.
C22_CooldownAfterLast ==
    /\ [](\A i \in 2..Len(tasks) :
            startTime[i] # -1 =>
               /\ startTime[i] >= settleTime[i - 1] + REQUEST_DELAY
               /\ enqTime[i] <= settleTime[i - 1] + REQUEST_DELAY =>
                     /\ startTime[i] = settleTime[i - 1] + REQUEST_DELAY
                     /\ startTime[i] = clearTime[i - 1])
    /\ [][(clearTime' # clearTime /\ apiQueue = <<>>) =>
             (~isApiBusy' /\ timers' = {} /\ inflight' = {})]_vars
    /\ [][(~isApiBusy /\ tasks' # tasks) =>
             (startTime'[Len(tasks')] = now /\ enqTime'[Len(tasks')] = now)]_vars
\* item 2 was enqueued in the middle of item 1's cooldown and started when
\* the timer fired; item 3 was enqueued after the serializer had become idle
\* and started at once
C22_Witness ==
    /\ Len(tasks) >= 3
    /\ enqTime[2] > settleTime[1]
    /\ enqTime[2] < settleTime[1] + REQUEST_DELAY
    /\ startTime[2] = clearTime[1]
    /\ clearTime[2] # -1
    /\ enqTime[3] > clearTime[2]
    /\ startTime[3] = enqTime[3]

\* C23: in CreativeCorner an image or script result requested for an idea
\* is only ever written into an idea of the generation it was requested for
\* (or mapped over an empty list): no idea of the list carries an image or a
\* script requested for an idea of another generation.
C23_NoCrossGenerationWrite ==
    component.pc # "none" =>
        \A k \in 1..Len(component.ideas) :
            /\ component.ideas[k].image \in {0, component.ideas[k].gen}
            /\ component.ideas[k].script \in {0, component.ideas[k].gen}
\* an image requested for an idea of the first generation settled after
\* handleGenerateIdeas had cleared the list, and the next generation's ideas
\* arrived without it
C23_Witness ==
    /\ component.pc = "mounted"
    /\ Len(component.reqs) >= 3
    /\ component.reqs[2].kind = "image"
    /\ component.reqs[3].kind = "ideas"
    /\ enqTime[3] < startTime[2]
    /\ settleTime[3] # -1
    /\ Len(component.ideas) >= component.reqs[2].index
    /\ \A k \in 1..Len(component.ideas) :
          component.ideas[k].gen = 3 /\ component.ideas[k].image = 0

\* C24: unmounting a component neither removes nor skips its queued work.
\* An item that was still queued when its component unmounted stays in
\* apiQueue until it is invoked, is invoked after every earlier item and
\* before every later one, makes its upstream call, and the item after it
\* starts no earlier than REQUEST_DELAY after it settled.
C24_UnmountKeepsWork ==
    component.pc # "none" =>
        \A id \in component.gone :
            /\ InQueue(id) = 1 \/ Started(id)
            /\ \A j \in 1..Len(tasks) :
                  (Started(j) /\ j > id) => Started(id)
            /\ Started(id) => \A j \in 1..(id - 1) :
                  Started(j) /\ startTime[j] <= startTime[id]
            /\ Settled(id) => CallsMade(id) = 1
            /\ (id < Len(tasks) /\ Started(id + 1)) =>
                  /\ Settled(id)
                  /\ startTime[id + 1] >= settleTime[id] + REQUEST_DELAY
\* item 2 was queued when the component unmounted; it still ran and made its
\* call, and item 3, enqueued by the component's next instance, started
\* REQUEST_DELAY after item 2 settled
C24_Witness ==
    /\ component.pc = "mounted"
    /\ 2 \in component.gone
    /\ component.since = 2
    /\ Len(tasks) >= 3
    /\ CallsMade(2) = 1
    /\ Settled(2)
    /\ Started(3)
    /\ startTime[3] = settleTime[2] + REQUEST_DELAY

\* C25: for a component that stays mounted, the loading flag set when a
\* request is enqueued stays true while the item waits in the queue and
\* executes, and is clear once every item that set it has run.
C25_LoadingUntilDone ==
    component.pc = "speech" =>
        LET flag(kind) == IF kind = "transcribe"
                          THEN component.isProcessingSpeech
                          ELSE component.loading
            pending(kind) == {id \in 1..Len(component.reqs) :
                                component.reqs[id] = kind /\ ~Settled(id)}
        IN \A kind \in {"transcribe", "speech"} :
              /\ pending(kind) # {} => flag(kind)
              /\ pending(kind) = {} => ~flag(kind)

\* the error is no TypeError, no SyntaxError, and its text has no marker
Unmarked(e) ==
    /\ e.cls \notin {"TypeError", "SyntaxError"}
    /\ ~Mentions(e, Markers)

\* C26: getApiErrorMessage, in index.tsx and in part_000, returns one of
\* its user-facing messages for every input without throwing, and the
\* generic one for an input that carries no recognised marker.
C26_Total ==
    report.pc = "done" =>
        /\ report.message \in {"network", "quota", "apikey", "invalid",
                               "safety", "server", "generic"}
        /\ report.message000 \in {"quota", "generic"}
        /\ Unmarked(report.error) =>
              report.message = "generic" /\ report.message000 = "generic"

\* the text t as a plain string
AsString(t) ==
    [shape |-> "string", cls |-> "none", message |-> t, inner |-> {},
     other |-> {}, cyclic |-> FALSE]

\* the error carries one text and nothing else: a string, the message of an
\* Error, or the message, the error.message or another property of a plain
\* object that JSON.stringify can serialise
CarriedText(e) == e.message \cup e.inner \cup e.other
Carrier(e) ==
    /\ e.shape \in {"string", "Error", "object"}
    /\ ~e.cyclic
    /\ Cardinality({f \in {e.message, e.inner, e.other} : f # {}}) <= 1

\* C27: a marker text yields the same category whether it arrives as a
\* plain string, as Error.message, as object.message, as
\* object.error.message or as another property value of the object; only a
\* TypeError with 'failed to fetch' (network) and a SyntaxError instance
\* (invalid response) can get another message than the string does. In
\* part_000 no shape gets another message.
C27_ShapeIndependent ==
    (report.pc = "done" /\ Carrier(report.error)) =>
        LET e == report.error
            asString == GetApiErrorMessage(AsString(CarriedText(e)))
        IN /\ report.message # asString =>
                 \/ /\ e.cls = "TypeError"
                    /\ Mentions(e, {"failed to fetch"})
                    /\ report.message = "network"
                 \/ /\ e.cls = "SyntaxError"
                    /\ report.message = "invalid"
           /\ report.message000 =
                 GetApiErrorMessagePart000(AsString(CarriedText(e)))
\* RESOURCE_EXHAUSTED in capitals, present only in the error.message of a
\* plain object, was classified as a quota error by both versions
C27_Witness ==
    /\ report.pc = "done"
    /\ report.error.shape = "object"
    /\ report.error.message = {}
    /\ report.error.other = {}
    /\ report.error.inner = {[m |-> "resource_exhausted", up |-> TRUE]}
    /\ ~report.error.cyclic
    /\ report.message = "quota"
    /\ report.message000 = "quota"
====
